---- MODULE Spec2Model ----
(***************************************************************************)
(* Minesweeper (pygame): the board of src/sprites.py and the controller   *)
(* of src/main.py as one state machine.                                    *)
(*                                                                         *)
(* settings.py is not part of the sources, so the three configuration     *)
(* names it supplies (COLS, ROWS, AMOUNT_MINES) are fixed per behaviour    *)
(* and drawn from bounded sets in Init.  TILESIZE only converts pixels to  *)
(* grid indices; the mouse position is modelled as the resulting tile.     *)
(***************************************************************************)
EXTENDS Integers, Sequences, FiniteSets, TLC

\* ---------------------------------------------------------------- bounds
\* largest board, in tiles (COLS * ROWS <= MaxTiles)
MaxTiles == 6
\* largest COLS and largest ROWS
MaxSide == 3
\* largest configured AMOUNT_MINES
MaxMines == 2
\* largest number of mouse events one pygame.event.get() returns
MaxPoll == 2
\* largest COLS and largest ROWS of the boards that are only constructed
MaxBoardSide == 4
\* largest such board, in tiles
MaxBoardTiles == 12
\* largest AMOUNT_MINES of the boards that are only constructed
MaxBoardMines == 2

VARIABLES
    COLS,          \* settings: number of columns
    ROWS,          \* settings: number of rows
    AMOUNT_MINES,  \* settings: number of mines
    type,          \* Tile.type of every tile: ".", "X" or "C"
    image,         \* Tile.image of every tile
    revealed,      \* the tiles whose Tile.revealed is True
    flagged,       \* the tiles whose Tile.flagged is True
    dug,           \* Board.dug, as the set of its members
    playing,       \* Game.playing
    win,           \* Game.win: "unset" until first assigned, then "True"
    pc,            \* where the program is: "place_mines" (Board.__init__),
                   \* "run" (the while loop of Game.run and the Game.events
                   \* it calls), "end_screen", "exited"
    placed,        \* place_mines: mines placed so far (the for loop's progress)
    pending,       \* Game.events: polled mouse events its for loop has still
                   \* to handle; 0 outside the loop
    button         \* Game.events: event.button of the event its for loop
                   \* handled last, 0 when there is none

vars == <<COLS, ROWS, AMOUNT_MINES, type, image, revealed, flagged, dug,
          playing, win, pc, placed, pending, button>>

\* ------------------------------------------------------------ the board
\* board_list[x][y] for x in range(COLS), y in range(ROWS)
Tiles == (0 .. COLS - 1) \X (0 .. ROWS - 1)

Max(a, b) == IF a >= b THEN a ELSE b
Min(a, b) == IF a <= b THEN a ELSE b

\* Board.is_inside
is_inside(x, y) == 0 <= x /\ x < COLS /\ 0 <= y /\ y < ROWS

\* mutant of check_neighbours: range(-1, 1) for y_offset, so the row below
\* is never counted
check_neighboursShortRange(t, x, y) ==
    Cardinality({ o \in (-1 .. 1) \X (-1 .. 0) :
                    /\ is_inside(x + o[1], y + o[2])
                    /\ t[<<x + o[1], y + o[2]>>] = "X" })

\* Board.check_neighbours over a type grid t
check_neighbours(t, x, y) ==
    Cardinality({ o \in (-1 .. 1) \X (-1 .. 1) :
                    /\ is_inside(x + o[1], y + o[2])
                    /\ t[<<x + o[1], y + o[2]>>] = "X" })

\* the tile images of settings.py: a named picture, and for
\* tile_numbers[total_mines-1] the number total_mines it shows
Picture(name) == [pic |-> name, n |-> 0]
tile_numbers(total_mines) == [pic |-> "number", n |-> total_mines]

\* the fresh grid built in Board.__init__
EmptyType == [t \in Tiles |-> "."]
EmptyImage == [t \in Tiles |-> Picture("tile_empty")]

\* Board.place_clues
place_clues(t, im) ==
    [type |-> [p \in Tiles |->
                 IF t[p] # "X" /\ check_neighbours(t, p[1], p[2]) > 0
                 THEN "C" ELSE t[p]],
     image |-> [p \in Tiles |->
                 IF t[p] # "X" /\ check_neighbours(t, p[1], p[2]) > 0
                 THEN tile_numbers(check_neighbours(t, p[1], p[2])) ELSE im[p]]]

\* -------------------------------------------------------------- Board.dig
\* mutant of NeighbourSeq: range(max(0, x-1), min(COLS-1, x+1)) without the
\* + 1, so the column to the right is never visited
NeighbourSeqNoPlusOne(x, y) ==
    LET xlo == Max(0, x - 1)
        xhi == Min(COLS - 1, x + 1) - 1
        ylo == Max(0, y - 1)
        yhi == Min(ROWS - 1, y + 1)
        ny == yhi - ylo + 1
        nx == xhi - xlo + 1
    IN [k \in 1 .. (nx * ny) |-> <<xlo + ((k - 1) \div ny), ylo + ((k - 1) % ny)>>]

\* mutant of NeighbourSeq: range(max(0, y), min(ROWS-1, y+1) + 1), so the
\* row above is never visited
NeighbourSeqNoMinusOne(x, y) ==
    LET xlo == Max(0, x - 1)
        xhi == Min(COLS - 1, x + 1)
        ylo == Max(0, y)
        yhi == Min(ROWS - 1, y + 1)
        ny == yhi - ylo + 1
        nx == xhi - xlo + 1
    IN [k \in 1 .. (nx * ny) |-> <<xlo + ((k - 1) \div ny), ylo + ((k - 1) % ny)>>]

\* the neighbours of (x, y) in the order of the two for loops of dig
NeighbourSeq(x, y) ==
    LET xlo == Max(0, x - 1)
        xhi == Min(COLS - 1, x + 1)
        ylo == Max(0, y - 1)
        yhi == Min(ROWS - 1, y + 1)
        ny == yhi - ylo + 1
        nx == xhi - xlo + 1
    IN [k \in 1 .. (nx * ny) |-> <<xlo + ((k - 1) \div ny), ylo + ((k - 1) % ny)>>]

RECURSIVE dig(_, _, _), digEach(_, _)

\* mutant of dig: the return True of the "C" branch is missing, so a Clue
\* tile falls through to the two for loops like an Empty one
digClueFallsThrough(x, y, b) ==
    CASE type[<<x, y>>] = "X" ->
           [b EXCEPT !.dug = @ \cup {<<x, y>>},
                     !.maxdepth = Max(@, b.depth + 1),
                     !.calls[<<x, y>>] = @ + 1,
                     !.revealed = @ \cup {<<x, y>>},
                     !.image[<<x, y>>] = Picture("tile_exploded"),
                     !.ret = FALSE]
      [] OTHER ->
           [digEach(NeighbourSeq(x, y),
                    [b EXCEPT !.dug = @ \cup {<<x, y>>},
                              !.depth = @ + 1,
                              !.maxdepth = Max(@, b.depth + 1),
                              !.calls[<<x, y>>] = @ + 1,
                              !.revealed = @ \cup {<<x, y>>},
                              !.visits = @ \cup { <<<<x, y>>, NeighbourSeq(x, y)[k]>> :
                                                    k \in DOMAIN NeighbourSeq(x, y) }])
              EXCEPT !.ret = TRUE, !.depth = b.depth]

\* b = [revealed, image, dug, ret, depth, maxdepth, calls, visits]: the board
\* fields dig writes, the value the call returns, and a record of the run:
\* depth is the number of dig frames on the call stack, maxdepth the largest
\* depth so far, calls[t] how often the body of dig ran for tile t, visits
\* the pairs <<(x, y), (nx, ny)>> the two for loops of the call at (x, y)
\* went through
dig(x, y, b) ==
    CASE type[<<x, y>>] = "X" ->
           [b EXCEPT !.dug = @ \cup {<<x, y>>},
                     !.maxdepth = Max(@, b.depth + 1),
                     !.calls[<<x, y>>] = @ + 1,
                     !.revealed = @ \cup {<<x, y>>},
                     !.image[<<x, y>>] = Picture("tile_exploded"),
                     !.ret = FALSE]
      [] type[<<x, y>>] = "C" ->
           [b EXCEPT !.dug = @ \cup {<<x, y>>},
                     !.maxdepth = Max(@, b.depth + 1),
                     !.calls[<<x, y>>] = @ + 1,
                     !.revealed = @ \cup {<<x, y>>},
                     !.ret = TRUE]
      [] OTHER ->
           [digEach(NeighbourSeq(x, y),
                    [b EXCEPT !.dug = @ \cup {<<x, y>>},
                              !.depth = @ + 1,
                              !.maxdepth = Max(@, b.depth + 1),
                              !.calls[<<x, y>>] = @ + 1,
                              !.revealed = @ \cup {<<x, y>>},
                              !.visits = @ \cup { <<<<x, y>>, NeighbourSeq(x, y)[k]>> :
                                                    k \in DOMAIN NeighbourSeq(x, y) }])
              EXCEPT !.ret = TRUE, !.depth = b.depth]

\* mutant of digEach: a Clue neighbour is dug whether or not it is in dug
digEachClueAgain(s, b) ==
    CASE s = <<>> -> b
      [] Head(s) \in b.dug /\ type[Head(s)] # "C" -> digEach(Tail(s), b)
      [] OTHER -> digEach(Tail(s), dig(Head(s)[1], Head(s)[2], b))

\* the body of the two for loops over the neighbours s still to come: a
\* neighbour that is in dug is passed over, any other is dug, and the loops
\* go on with the rest on the board that leaves
digEach(s, b) ==
    CASE s = <<>> -> b
      [] Head(s) \in b.dug -> digEach(Tail(s), b)
      [] OTHER -> digEach(Tail(s), dig(Head(s)[1], Head(s)[2], b))

\* ------------------------------------------------------- Game (main.py)
\* Game.check_win over a revealed set
check_win(rev) == \A t \in Tiles : ~(type[t] # "X" /\ t \notin rev)

\* g = [revealed, flagged, image, dug, playing, win]: what one event of
\* Game.events may write

\* mutant of Explode: only the mine that was dug is revealed, the other
\* unflagged mines stay hidden
ExplodeOnlyClicked(m, g) ==
    [g EXCEPT !.revealed = @ \cup { t \in Tiles : type[t] # "X" /\ t \in g.flagged },
              !.flagged = @ \ { t \in Tiles : type[t] # "X" },
              !.image = [t \in Tiles |->
                           IF type[t] # "X" /\ t \in g.flagged
                           THEN Picture("tile_not_mine")
                           ELSE g.image[t]],
              !.playing = FALSE]

\* mutant of Explode: the branch for wrongly placed flags (main.py 117-121)
\* is missing, flagged non-mine tiles are left as they are
ExplodeKeepsWrongFlags(m, g) ==
    [g EXCEPT !.revealed = @ \cup { t \in Tiles : type[t] = "X" /\ t \notin g.flagged },
              !.image = [t \in Tiles |->
                           IF type[t] = "X"
                           THEN (IF t \in g.flagged THEN g.image[t]
                                 ELSE IF t = m THEN Picture("tile_exploded")
                                 ELSE Picture("tile_mine"))
                           ELSE g.image[t]],
              !.playing = FALSE]

\* main.py lines 99-123: the sweep after dig returned False at tile m.
\* Per tile: a flagged mine is skipped, any other mine is revealed (and
\* its flagged, already False, set False), a flagged non-mine is revealed
\* and loses its flag.
Explode(m, g) ==
    [g EXCEPT !.revealed = @ \cup { t \in Tiles :
                                     IF type[t] = "X" THEN t \notin g.flagged
                                     ELSE t \in g.flagged },
              !.flagged = @ \ { t \in Tiles : type[t] # "X" },
              !.image = [t \in Tiles |->
                           IF type[t] = "X"
                           THEN (IF t \in g.flagged THEN g.image[t]
                                 ELSE IF t = m THEN Picture("tile_exploded")
                                 ELSE Picture("tile_mine"))
                           ELSE IF t \in g.flagged
                           THEN Picture("tile_not_mine")
                           ELSE g.image[t]],
              !.playing = FALSE]

\* the board as a top-level call of dig finds it, no dig frame on the stack
DigStart(g) ==
    [revealed |-> g.revealed, image |-> g.image, dug |-> g.dug, ret |-> TRUE,
     depth |-> 0, maxdepth |-> 0, calls |-> [t \in Tiles |-> 0], visits |-> {}]

\* mutant of LeftClick: the test of flagged is missing
LeftClickNoGuard(m, g) ==
    LET d == dig(m[1], m[2], DigStart(g))
        g1 == [g EXCEPT !.revealed = d.revealed,
                        !.image = d.image,
                        !.dug = d.dug]
    IN IF ~d.ret THEN Explode(m, g1) ELSE g1

\* mutant of LeftClick: the clicked tile is put on the visited list before
\* the test of flagged, so a click on a flagged tile leaves a hidden tile
\* in dug
LeftClickDugBeforeGuard(m, g) ==
    IF m \in g.flagged THEN [g EXCEPT !.dug = @ \cup {m}]
    ELSE LET d == dig(m[1], m[2], DigStart(g))
             g1 == [g EXCEPT !.revealed = d.revealed,
                             !.image = d.image,
                             !.dug = d.dug]
         IN IF ~d.ret THEN Explode(m, g1) ELSE g1

\* main.py lines 95-123: event.button == 1
LeftClick(m, g) ==
    IF m \in g.flagged THEN g
    ELSE LET d == dig(m[1], m[2], DigStart(g))
             g1 == [g EXCEPT !.revealed = d.revealed,
                             !.image = d.image,
                             !.dug = d.dug]
         IN IF ~d.ret THEN Explode(m, g1) ELSE g1

\* mutant of RightClick: the test of revealed is missing
RightClickNoGuard(m, g) ==
    [g EXCEPT !.flagged = IF m \in @ THEN @ \ {m} ELSE @ \cup {m}]

\* main.py lines 125-128: event.button == 3
RightClick(m, g) ==
    IF m \notin g.revealed
    THEN [g EXCEPT !.flagged = IF m \in @ THEN @ \ {m} ELSE @ \cup {m}]
    ELSE g

\* mutant of WinCheck: a flagged tile counts as revealed in the win test
WinCheckCountsFlags(g) ==
    IF check_win(g.revealed \cup g.flagged)
    THEN [g EXCEPT !.win = "True",
                   !.playing = FALSE,
                   !.flagged = @ \cup (Tiles \ g.revealed)]
    ELSE g

\* main.py lines 130-136: the win check that closes every mouse event
WinCheck(g) ==
    IF check_win(g.revealed)
    THEN [g EXCEPT !.win = "True",
                   !.playing = FALSE,
                   !.flagged = @ \cup (Tiles \ g.revealed)]
    ELSE g

\* main.py lines 90-136: one MOUSEBUTTONDOWN event with the mouse over tile m
MouseDown(b, m, g) ==
    LET g1 == IF b = 1 THEN LeftClick(m, g) ELSE g
        g2 == IF b = 3 THEN RightClick(m, g1) ELSE g1
    IN WinCheck(g2)

Cur == [revealed |-> revealed, flagged |-> flagged, image |-> image,
        dug |-> dug, playing |-> playing, win |-> win]

\* a top-level dig at tile m on the current board with the visited list the
\* game has kept, and the same call with a visited list that starts empty
DigKept(m) == dig(m[1], m[2], DigStart(Cur))
DigFresh(m) == dig(m[1], m[2], [DigStart(Cur) EXCEPT !.dug = {}])

\* the mouse buttons: left, middle, right
Buttons == {1, 2, 3}

\* ---------------------------------------------------------------- actions
\* the settings: boards of up to MaxSide columns and rows and MaxTiles tiles
\* with 1 .. MaxMines mines, AMOUNT_MINES >= COLS * ROWS included
Configs == { c \in (1 .. MaxSide) \X (1 .. MaxSide) \X (1 .. MaxMines) :
               c[1] * c[2] <= MaxTiles }

\* the grid of Board.__init__ before place_mines: every tile ".", hidden
Init ==
    /\ \E c \in Configs :
         /\ COLS = c[1]
         /\ ROWS = c[2]
         /\ AMOUNT_MINES = c[3]
    /\ type = EmptyType
    /\ image = EmptyImage
    /\ revealed = {}
    /\ flagged = {}
    /\ dug = {}
    /\ playing = FALSE
    /\ win = "unset"
    /\ pc = "place_mines"
    /\ placed = 0
    /\ pending = 0
    /\ button = 0

Mines == { t \in Tiles : type[t] = "X" }

\* mutant of PlaceMine: the test of type == "." is missing, a mine is put on
\* whatever tile was drawn
PlaceMineNoCheck(x, y) ==
    /\ pc = "place_mines"
    /\ placed < AMOUNT_MINES
    /\ type' = [type EXCEPT ![<<x, y>>] = "X"]
    /\ image' = [image EXCEPT ![<<x, y>>] = Picture("tile_mine")]
    /\ placed' = placed + 1
    /\ UNCHANGED <<COLS, ROWS, AMOUNT_MINES, revealed, flagged, dug,
                   playing, win, pc, pending, button>>

\* mutant of PlaceMine: the break is missing, so a pass that placed a mine
\* does not end the while True loop
PlaceMineNoBreak(x, y) ==
    /\ pc = "place_mines"
    /\ placed < AMOUNT_MINES
    /\ IF type[<<x, y>>] = "."
       THEN /\ type' = [type EXCEPT ![<<x, y>>] = "X"]
            /\ image' = [image EXCEPT ![<<x, y>>] = Picture("tile_mine")]
       ELSE UNCHANGED <<type, image>>
    /\ UNCHANGED <<COLS, ROWS, AMOUNT_MINES, revealed, flagged, dug,
                   playing, win, pc, placed, pending, button>>

\* one pass of the while True loop of place_mines with the random (x, y)
PlaceMine(x, y) ==
    /\ pc = "place_mines"
    /\ placed < AMOUNT_MINES
    /\ IF type[<<x, y>>] = "."
       THEN /\ type' = [type EXCEPT ![<<x, y>>] = "X"]
            /\ image' = [image EXCEPT ![<<x, y>>] = Picture("tile_mine")]
            /\ placed' = placed + 1
       ELSE UNCHANGED <<type, image, placed>>
    /\ UNCHANGED <<COLS, ROWS, AMOUNT_MINES, revealed, flagged, dug,
                   playing, win, pc, pending, button>>

\* place_mines is done: place_clues, dug = [], then Game.run sets playing
FinishBoard ==
    /\ pc = "place_mines"
    /\ placed = AMOUNT_MINES
    /\ LET c == place_clues(type, image)
       IN /\ type' = c.type
          /\ image' = c.image
    /\ dug' = {}
    /\ playing' = TRUE
    /\ pc' = "run"
    /\ placed' = 0
    /\ UNCHANGED <<COLS, ROWS, AMOUNT_MINES, revealed, flagged, win, pending,
                   button>>

\* Game.run finds playing True and calls Game.events, whose for loop starts
\* on the n mouse events pygame.event.get() returned
Poll(n) ==
    /\ pc = "run"
    /\ playing
    /\ pending = 0
    /\ pending' = n
    /\ UNCHANGED <<COLS, ROWS, AMOUNT_MINES, type, image, revealed, flagged,
                   dug, playing, win, pc, placed, button>>

\* Game.events: the loop body for one MOUSEBUTTONDOWN event of button b with
\* the mouse over tile m.  After the last polled event the method returns to
\* Game.run, whose while loop goes on if playing is still True and else
\* hands over to end_screen.
HandleEvent(b, m) ==
    /\ pc = "run"
    /\ pending > 0
    /\ pending' = pending - 1
    /\ button' = IF pending > 1 THEN b ELSE 0
    /\ \E g \in {MouseDown(b, m, Cur)} :
          /\ revealed' = g.revealed
          /\ flagged' = g.flagged
          /\ image' = g.image
          /\ dug' = g.dug
          /\ playing' = g.playing
          /\ win' = g.win
          /\ pc' = IF pending = 1 /\ ~g.playing THEN "end_screen" ELSE "run"
    /\ UNCHANGED <<COLS, ROWS, AMOUNT_MINES, type, placed>>

\* mutant of Restart: the new board keeps the revealed and flagged values
\* and the visited list of the old one
RestartKeepsTiles ==
    /\ pc = "end_screen"
    /\ type' = EmptyType
    /\ image' = EmptyImage
    /\ pc' = "place_mines"
    /\ UNCHANGED <<COLS, ROWS, AMOUNT_MINES, revealed, flagged, dug, playing,
                   win, placed, pending, button>>

\* Game.end_screen returns on a mouse click; the main loop calls Game.new,
\* which builds a new Board
Restart ==
    /\ pc = "end_screen"
    /\ type' = EmptyType
    /\ image' = EmptyImage
    /\ revealed' = {}
    /\ flagged' = {}
    /\ dug' = {}
    /\ pc' = "place_mines"
    /\ UNCHANGED <<COLS, ROWS, AMOUNT_MINES, playing, win, placed, pending,
                   button>>

\* pygame.QUIT in Game.events or Game.end_screen: quit(0) ends the process
\* and with it every object
Quit ==
    /\ \/ pc = "run" /\ pending > 0
       \/ pc = "end_screen"
    /\ pc' = "exited"
    /\ type' = EmptyType
    /\ image' = EmptyImage
    /\ revealed' = {}
    /\ flagged' = {}
    /\ dug' = {}
    /\ playing' = FALSE
    /\ win' = "unset"
    /\ placed' = 0
    /\ pending' = 0
    /\ button' = 0
    /\ UNCHANGED <<COLS, ROWS, AMOUNT_MINES>>

Next ==
    \/ \E x \in 0 .. COLS - 1, y \in 0 .. ROWS - 1 : PlaceMine(x, y)
    \/ FinishBoard
    \/ \E n \in 1 .. MaxPoll : Poll(n)
    \/ \E b \in Buttons, m \in Tiles : HandleEvent(b, m)
    \/ Restart
    \/ Quit

Spec == Init /\ [][Next]_vars

\* ------------------------------------------------------ Board.__init__
\* the settings of the boards that are only constructed: every board of up
\* to MaxBoardSide columns and rows and MaxBoardTiles tiles with
\* 1 .. MaxBoardMines mines, AMOUNT_MINES >= COLS * ROWS included
BoardConfigs ==
    { c \in (1 .. MaxBoardSide) \X (1 .. MaxBoardSide) \X (1 .. MaxBoardMines) :
        c[1] * c[2] <= MaxBoardTiles }

\* the grid of Board.__init__ before place_mines, for the settings above
BoardInit ==
    /\ \E c \in BoardConfigs :
         /\ COLS = c[1]
         /\ ROWS = c[2]
         /\ AMOUNT_MINES = c[3]
    /\ type = EmptyType
    /\ image = EmptyImage
    /\ revealed = {}
    /\ flagged = {}
    /\ dug = {}
    /\ playing = FALSE
    /\ win = "unset"
    /\ pc = "place_mines"
    /\ placed = 0
    /\ pending = 0
    /\ button = 0

\* Board.__init__ alone: the passes of place_mines, then place_clues
BoardNext ==
    \/ \E x \in 0 .. COLS - 1, y \in 0 .. ROWS - 1 : PlaceMine(x, y)
    \/ FinishBoard

\* random.randint draws every coordinate pair with positive probability on
\* every pass, so a pair that keeps being able to take a mine is drawn in
\* the end; a loop that is over is left
BoardFairness ==
    /\ \A x \in 0 .. MaxBoardSide - 1, y \in 0 .. MaxBoardSide - 1 :
         WF_vars(x < COLS /\ y < ROWS /\ PlaceMine(x, y))
    /\ WF_vars(FinishBoard)

BoardSpec == BoardInit /\ [][BoardNext]_vars /\ BoardFairness

\* ------------------------------------------- the first click on a board
\* Game.events gets one mouse event while the board is as Board.__init__
\* left it
FirstPoll ==
    /\ dug = {}
    /\ flagged = {}
    /\ Poll(1)

\* the construction of a board and the first click on it
FirstClickNext ==
    \/ \E x \in 0 .. COLS - 1, y \in 0 .. ROWS - 1 : PlaceMine(x, y)
    \/ FinishBoard
    \/ FirstPoll
    \/ \E b \in Buttons, m \in Tiles : HandleEvent(b, m)

FirstClickSpec == BoardInit /\ [][FirstClickNext]_vars

\* ----------------------------------------------------------------- claims
\* the board is built and in play or on the end screen
Built == pc \in {"run", "end_screen"}

\* two different tiles that touch, diagonals included
Adjacent(a, c) ==
    /\ a # c
    /\ a[1] - c[1] \in -1 .. 1
    /\ a[2] - c[2] \in -1 .. 1

RECURSIVE Grow(_)
\* the least set of Empty tiles that holds S and is closed under Adjacent
Grow(S) ==
    LET N == S \cup { t \in Tiles : type[t] = "." /\ \E r \in S : Adjacent(r, t) }
    IN IF N = S THEN S ELSE Grow(N)

\* the 8-connected region of Empty tiles around the Empty tile m
Region(m) == Grow({m})

\* the Clue tiles that touch a tile of R
Border(R) == { t \in Tiles : type[t] = "C" /\ \E r \in R : Adjacent(r, t) }

\* C1 (as claimed): no tile is both revealed and flagged.
C1_NeverRevealedAndFlagged == revealed \cap flagged = {}

\* C2 (as claimed): a primary click during play that digs a mine and ends
\* the round leaves every mine revealed, flagged before or not.
C2_AllMinesRevealedOnLoss ==
    [][\A m \in Tiles :
         (playing /\ ~playing' /\ type[m] = "X" /\ m \notin flagged
            /\ HandleEvent(1, m))
         => Mines \subseteq revealed']_vars

\* C2 (amended): a primary click during play that digs a mine and ends the
\* round leaves every mine that was not flagged revealed, and every flagged
\* mine hidden and flagged.
C2_UnflaggedMinesRevealedOnLoss ==
    [][\A m \in Tiles :
         (playing /\ ~playing' /\ type[m] = "X" /\ m \notin flagged
            /\ HandleEvent(1, m))
         => \A t \in Mines :
              /\ t \notin flagged => t \in revealed'
              /\ t \in flagged => (t \notin revealed' /\ t \in flagged')]_vars

\* C2 witness: a primary click has just ended the round on a mine, and a
\* flagged mine is still hidden.
C2_Witness ==
    /\ button = 1
    /\ ~playing
    /\ Mines \cap revealed # {}
    /\ (Mines \cap flagged) \ revealed # {}

\* C3: a primary click on an unflagged Empty tile m makes revealed exactly
\* what was revealed before, the 8-connected region of Empty tiles around m
\* and the Clue tiles touching that region.
C3_CascadeExact ==
    [][\A m \in Tiles :
         (type[m] = "." /\ m \notin flagged /\ HandleEvent(1, m))
         => revealed' = revealed \cup Region(m) \cup Border(Region(m))]_vars

\* C3 witness: on a non-square board a primary click has just revealed an
\* Empty tile and a Clue tile, and a non-mine tile outside the region is
\* still hidden.
C3_Witness ==
    /\ button = 1
    /\ playing
    /\ COLS # ROWS
    /\ \E t \in revealed : type[t] = "."
    /\ \E t \in revealed : type[t] = "C"
    /\ \E t \in Tiles \ revealed : type[t] = "C"

\* C4 (as claimed): right after a click event the round is ended as Won
\* (win indicator set, playing false) if and only if every non-mine tile
\* is revealed.
C4_WonIffAllRevealed ==
    (pc = "run" /\ button # 0)
    => ((win = "True" /\ ~playing) <=> check_win(revealed))

\* C5 (as claimed): when a click that digs no mine ends the round as Won,
\* the hidden tiles are exactly the mines and afterwards the flagged tiles
\* are exactly the mines.
C5_WonFlagsExactlyMines ==
    [][\A b \in Buttons, m \in Tiles :
         (playing /\ ~playing' /\ win' = "True" /\ Mines \cap revealed' = {}
            /\ HandleEvent(b, m))
         => (Tiles \ revealed' = Mines /\ flagged' = Mines)]_vars

\* C6 (as claimed): once the round has ended, no tile's revealed or flagged
\* value changes until the restart replaces the board.
C6_FrozenAfterEnd ==
    [][(Built /\ ~playing /\ pc' \in {"run", "end_screen"})
         => (revealed' = revealed /\ flagged' = flagged)]_vars

\* C7: a primary click on a flagged tile changes nothing: the tile keeps
\* its flag and is not revealed, no other tile changes, the visited list is
\* unchanged and the round stays as it is (in play when it was in play).
C7_PrimaryOnFlaggedNoOp ==
    [][\A m \in Tiles :
         (m \in flagged /\ HandleEvent(1, m))
         => /\ m \in flagged'
            /\ UNCHANGED <<revealed, flagged, image, dug, playing>>]_vars

\* C7 witness: during play a primary click has just been handled and yet
\* nothing was ever dug, so the click was on one of the flagged tiles.
C7_Witness ==
    /\ button = 1
    /\ playing
    /\ dug = {}
    /\ revealed = {}
    /\ flagged # {}

\* C8 (as claimed): a secondary click during play leaves every revealed
\* value as it is; on a revealed tile it changes no flag, on a hidden tile
\* it flips that tile's flag and no other.
C8_SecondaryClickFrame ==
    [][\A m \in Tiles :
         (playing /\ HandleEvent(3, m))
         => /\ revealed' = revealed
            /\ flagged' = IF m \in revealed THEN flagged
                           ELSE IF m \in flagged THEN flagged \ {m}
                           ELSE flagged \cup {m}]_vars

\* C8 (amended): the same on a board with AMOUNT_MINES < COLS * ROWS, that
\* is with at least one non-mine tile.
C8_SecondaryClickFrameWithNonMine ==
    [][\A m \in Tiles :
         (playing /\ AMOUNT_MINES < COLS * ROWS /\ HandleEvent(3, m))
         => /\ revealed' = revealed
            /\ flagged' = IF m \in revealed THEN flagged
                           ELSE IF m \in flagged THEN flagged \ {m}
                           ELSE flagged \cup {m}]_vars

\* C8 witness: during play on such a board a secondary click has just been
\* handled, one tile is flagged and another is revealed.
C8_Witness ==
    /\ button = 3
    /\ playing
    /\ AMOUNT_MINES < COLS * ROWS
    /\ Cardinality(flagged) = 1
    /\ revealed # {}

\* C9 (as claimed): while a round is in play no win indicator is set.
C9_NoStaleWin == (pc = "run" /\ playing) => win # "True"

\* C10: once the board is built the tiles of type "X" number AMOUNT_MINES;
\* while place_mines runs they number the mines placed so far.
C10_MineCount ==
    /\ Built => Cardinality(Mines) = AMOUNT_MINES
    /\ pc = "place_mines" => Cardinality(Mines) = placed

\* C10 witness: boards are built with AMOUNT_MINES = COLS * ROWS > 1 mines.
C10_Witness ==
    /\ Built
    /\ AMOUNT_MINES = COLS * ROWS
    /\ AMOUNT_MINES > 1
    /\ Cardinality(Mines) = AMOUNT_MINES

\* the mines that touch tile t, diagonals included
MinesAround(t) == { u \in Mines : Adjacent(t, u) }

\* C11: on a built board every non-mine tile that touches k >= 1 mines is a
\* Clue, and while the round is in play it shows the number k; one that
\* touches no mine is Empty and shows the empty picture.
C11_ClueIsMineCount ==
    Built =>
      \A t \in Tiles \ Mines :
        IF Cardinality(MinesAround(t)) >= 1
        THEN /\ type[t] = "C"
             /\ playing => image[t] = tile_numbers(Cardinality(MinesAround(t)))
        ELSE /\ type[t] = "."
             /\ playing => image[t] = Picture("tile_empty")

\* C11 witness: a built non-square board with a corner Clue, an edge Clue,
\* an interior Clue that shows 2 and an Empty tile.
C11_Witness ==
    /\ Built
    /\ COLS # ROWS
    /\ type[<<0, 0>>] = "C"
    /\ \E t \in Tiles : t[1] = 0 /\ t[2] \in 1 .. ROWS - 2 /\ type[t] = "C"
    /\ \E t \in Tiles :
         /\ t[1] \in 1 .. COLS - 2 /\ t[2] \in 1 .. ROWS - 2
         /\ type[t] = "C" /\ image[t].n = 2
    /\ \E t \in Tiles : type[t] = "."

\* C12: a primary click during play that reveals a hidden, unflagged Clue
\* or Mine tile m runs dig once:
\* the call sets revealed on m and on no other tile, goes through no
\* neighbour, and returns True for a Clue and False for a Mine.  In the
\* handler the visited list gains m alone; after a Clue the revealed tiles
\* are those of before and m, after a Mine the only other tiles revealed
\* are those of the explosion sweep (mines and flagged tiles).
C12_ClueAndMineNoCascade ==
    [][\A m \in Tiles :
         (playing /\ type[m] \in {"C", "X"} /\ m \notin flagged
            /\ m \notin revealed /\ m \in revealed' /\ HandleEvent(1, m))
         => /\ \E d \in {DigKept(m)} :
                 /\ d.revealed = revealed \cup {m}
                 /\ d.ret = (type[m] = "C")
                 /\ d.visits = {}
                 /\ d.maxdepth = 1
            /\ dug' = dug \cup {m}
            /\ type[m] = "C" => revealed' = revealed \cup {m}
            /\ type[m] = "X" =>
                 /\ (revealed' \ revealed) \subseteq ({m} \cup Mines \cup flagged)
                 /\ ~playing']_vars

\* C12 witness: a primary click has just revealed a lone Clue tile that
\* touches a hidden non-mine tile, and the round goes on.
C12_Witness ==
    /\ button = 1
    /\ playing
    /\ Cardinality(revealed) = 1
    /\ dug = revealed
    /\ \E t \in revealed :
         /\ type[t] = "C"
         /\ \E u \in Tiles \ (revealed \cup Mines) : Adjacent(t, u)

\* C13: a primary click during play that digs a mine and ends the round
\* clears the flag of every flagged non-mine tile and marks it revealed, so
\* afterwards only mines are flagged.
C13_WrongFlagsClearedOnLoss ==
    [][\A m \in Tiles :
         (playing /\ ~playing' /\ type[m] = "X" /\ m \notin flagged
            /\ HandleEvent(1, m))
         => /\ \A t \in flagged \ Mines : t \notin flagged' /\ t \in revealed'
            /\ flagged' \subseteq Mines]_vars

\* C13 witness: a primary click has just ended the round on a mine and a
\* tile shows the wrong-flag picture, revealed and without its flag, while
\* a flagged mine has kept its flag.
C13_Witness ==
    /\ button = 1
    /\ ~playing
    /\ \E t \in Mines : image[t] = Picture("tile_exploded")
    /\ \E t \in revealed \ flagged : image[t] = Picture("tile_not_mine")
    /\ flagged \cap Mines # {}

\* C14 (as claimed): on a board with a non-mine tile, a primary click during
\* play that digs a mine ends the round as Lost only: the win branch does
\* not run for that click, so the win indicator stays as it was.
C14_LossNeverWins ==
    [][\A m \in Tiles :
         (playing /\ AMOUNT_MINES < COLS * ROWS /\ type[m] = "X"
            /\ m \notin flagged /\ HandleEvent(1, m))
         => win' = win]_vars

\* C15: on a board with AMOUNT_MINES < COLS * ROWS the win condition is
\* false in a state in play, and a secondary click there leaves it false:
\* the round stays in play, the win indicator is as before, and the event
\* leaves what lines 125-128 alone leave (the win check changes nothing).
C15_FlagToggleNeverWins ==
    [][\A m \in Tiles :
         (playing /\ AMOUNT_MINES < COLS * ROWS /\ HandleEvent(3, m))
         => /\ ~check_win(revealed)
            /\ ~check_win(revealed')
            /\ playing'
            /\ win' = win
            /\ \E g \in {RightClick(m, Cur)} :
                 /\ flagged' = g.flagged
                 /\ revealed' = g.revealed
                 /\ image' = g.image
                 /\ dug' = g.dug]_vars

\* C15 witness: during play a secondary click has just been handled and now
\* every hidden non-mine tile carries a flag, some tile being revealed.
C15_Witness ==
    /\ button = 3
    /\ playing
    /\ AMOUNT_MINES < COLS * ROWS
    /\ revealed # {}
    /\ (Tiles \ (revealed \cup Mines)) # {}
    /\ (Tiles \ (revealed \cup Mines)) \subseteq flagged

\* C16 (as claimed): the construction of the board ends if
\* AMOUNT_MINES < COLS * ROWS, and with AMOUNT_MINES >= COLS * ROWS
\* place_mines never ends.
C16_TerminatesIffFewerMines ==
    /\ (AMOUNT_MINES < COLS * ROWS) => <>(pc = "run")
    /\ (AMOUNT_MINES >= COLS * ROWS) => [](pc = "place_mines")

\* C16 (amended): the construction of the board ends if
\* AMOUNT_MINES <= COLS * ROWS, and with AMOUNT_MINES > COLS * ROWS
\* place_mines never ends.
C16_TerminatesIffMinesFit ==
    /\ (AMOUNT_MINES <= COLS * ROWS) => <>(pc = "run")
    /\ (AMOUNT_MINES > COLS * ROWS) => [](pc = "place_mines")

\* C16 witness: a board of two tiles was built with AMOUNT_MINES = 2,
\* every tile a mine.
C16_Witness ==
    /\ pc = "run"
    /\ COLS * ROWS = 2
    /\ AMOUNT_MINES = 2
    /\ Mines = Tiles

\* C17: in every state in play and for every tile m, dig at m with the
\* visited list kept since the board was built leaves the same revealed
\* tiles and returns the same value as dig at m with an empty visited list.
C17_KeptDugSameAsFresh ==
    (pc = "run" /\ playing) =>
      \A m \in Tiles :
        /\ DigKept(m).revealed = DigFresh(m).revealed
        /\ DigKept(m).ret = DigFresh(m).ret

\* C17 witness: during play, after a primary click, there is a hidden tile
\* from which the two runs take different paths: the run with the kept list
\* skips a tile the fresh run digs again.
C17_Witness ==
    /\ pc = "run"
    /\ playing
    /\ button = 1
    /\ dug # {}
    /\ \E m \in Tiles \ revealed : DigKept(m).calls # DigFresh(m).calls

\* C18: whenever Game.events has a mouse event to handle, a primary click
\* on any tile m runs dig to its end within the event: the body of dig
\* runs at most once for any tile, the call stack never holds more dig
\* frames than tiles were processed, so never more than the board has
\* tiles, no frame is left when the call returns, and the visited list
\* gains exactly the tiles the body ran for.
C18_DigOncePerTile ==
    (pc = "run" /\ pending > 0) =>
      \A m \in Tiles :
        \E d \in {DigKept(m)} :
          /\ \A t \in Tiles : d.calls[t] <= 1
          /\ d.maxdepth >= 1
          /\ d.maxdepth <= Cardinality({ t \in Tiles : d.calls[t] = 1 })
          /\ d.maxdepth <= Cardinality(Tiles)
          /\ d.depth = 0
          /\ d.dug = dug \cup { t \in Tiles : d.calls[t] = 1 }

\* C18 witness: on a non-square board the first click has just run a
\* cascade over at least ten tiles and the round goes on.
C18_Witness ==
    /\ pc = "run"
    /\ playing
    /\ pending = 0
    /\ COLS # ROWS
    /\ Cardinality(dug) >= 10
    /\ dug = revealed

\* the block of tiles around tile p, each axis cut at its own bound
Block(p) ==
    (Max(0, p[1] - 1) .. Min(COLS - 1, p[1] + 1))
      \X (Max(0, p[2] - 1) .. Min(ROWS - 1, p[2] + 1))

\* C19: whenever Game.events has a mouse event to handle, in the dig a
\* primary click on any tile m starts every neighbour coordinate the for
\* loops go through is inside the board, and for every Empty tile p the
\* body ran for they are exactly the block
\* max(0, x-1) .. min(COLS-1, x+1) by max(0, y-1) .. min(ROWS-1, y+1), that
\* is p and the tiles of the board that touch it; no other tile has its
\* neighbours visited.
C19_NeighboursInsideOwnAxis ==
    (pc = "run" /\ pending > 0) =>
      \A m \in Tiles :
        \E d \in {DigKept(m)} :
          /\ \A v \in d.visits : is_inside(v[2][1], v[2][2])
          /\ \A p \in Tiles :
               { v[2] : v \in { w \in d.visits : w[1] = p } }
                 = IF type[p] = "." /\ d.calls[p] = 1 THEN Block(p) ELSE {}
          /\ \A p \in Tiles :
               Block(p) = { t \in Tiles : t = p \/ Adjacent(p, t) }

\* C19 witness: on a board with more columns than rows the first click has
\* just run a cascade that went through the neighbours of the Empty tile
\* in the last column and last row and of an Empty tile off every edge.
C19_Witness ==
    /\ pc = "run"
    /\ pending = 0
    /\ COLS > ROWS
    /\ dug # {}
    /\ type[<<COLS - 1, ROWS - 1>>] = "." /\ <<COLS - 1, ROWS - 1>> \in dug
    /\ \E t \in dug :
         /\ type[t] = "."
         /\ t[1] \in 1 .. COLS - 2
         /\ t[2] \in 1 .. ROWS - 2

\* C20: the click that leaves the end screen does nothing but start a new
\* game: the step builds a fresh grid with no tile revealed or flagged, and
\* until Game.run starts on the new board no tile becomes revealed or
\* flagged, the visited list is empty and no polled event is left over.
C20_RestartOnlyRestarts ==
    [][(pc \in {"end_screen", "place_mines"} /\ pc' # "exited")
         => /\ pc' \in {"place_mines", "run"}
            /\ pc = "end_screen" => (pc' = "place_mines" /\ type' = EmptyType)
            /\ revealed' = {}
            /\ flagged' = {}
            /\ dug' = {}
            /\ pending' = 0]_vars

\* C20 witness: a round is starting on a board built after a restart (the
\* win indicator of the round before is still set): in play, nothing
\* revealed, flagged or visited, no event left over.
C20_Witness ==
    /\ pc = "run"
    /\ playing
    /\ win = "True"
    /\ revealed = {}
    /\ flagged = {}
    /\ dug = {}
    /\ pending = 0
    /\ AMOUNT_MINES < COLS * ROWS

====
